---- MODULE Spec2Model ----
(***************************************************************************)
(* bookmyroom: the HTTP handlers of src/main.go over the PostgreSQL tables *)
(* of the schema (users, rooms, bookings).  Every SQL statement is one     *)
(* atomic step (autocommit, no transaction is ever opened by the code);    *)
(* a handler that issues two statements is two steps, and other handlers   *)
(* may run between them.                                                   *)
(***************************************************************************)
EXTENDS Integers, FiniteSets, Sequences, Bags, TLC

\* ---- bounds of the model ----
NumUsers == 2
MaxRooms == 2
MaxBookings == 2
MaxTime == 2
MaxInflight == 2
MaxSteps == 6

VARIABLES rooms, roomSeq, bookings, bookingSeq, inflight, resp, steps

vars == <<rooms, roomSeq, bookings, bookingSeq, inflight, resp, steps>>
store == <<rooms, roomSeq, bookings, bookingSeq>>

\* ---- users table and credentials ----
Users == 1 .. NumUsers
AdminId == 1
UserRole(u) == IF u = AdminId THEN "admin" ELSE "user"
\* the AuthUser the auth middleware puts in the request context
AuthUser(u) == [ID |-> u, Role |-> UserRole(u)]
Actors == {AuthUser(u) : u \in Users}

\* ---- HTTP responses: writeJSON(w, status, body) ----
StatusOK == 200
StatusCreated == 201
StatusBadRequest == 400
StatusUnauthorized == 401
StatusForbidden == 403
StatusNotFound == 404
StatusConflict == 409
StatusInternalServerError == 500

Response(op, status, msg, id) == [op |-> op, status |-> status, error |-> msg, id |-> id]

\* ---- request inputs ----
\* a start_time / end_time string of the JSON body: empty, not RFC3339, or
\* an RFC3339 text with an hour h and a zone offset off (in hours)
EmptyString == [txt |-> "empty", h |-> 0, off |-> 0]
BadString == [txt |-> "bad", h |-> 0, off |-> 0]
RFC3339(h, off) == [txt |-> "rfc3339", h |-> h, off |-> off]
\* time.Parse(time.RFC3339, s): the instant is the wall clock minus the offset
ParseTime(s) == [err |-> s.txt # "rfc3339", t |-> s.h - s.off]

\* the (start_time, end_time) pairs of the requests: every interval over the
\* instants 0 .. MaxTime written in UTC, the last one also written with a zone
\* offset, an empty interval and a reversed one
TimePairs ==
    {<<RFC3339(s, 0), RFC3339(e, 0)>> : s \in 0 .. MaxTime - 1, e \in 1 .. MaxTime} \cup
    {<<RFC3339(MaxTime, 1), RFC3339(MaxTime, 0)>>,
     <<RFC3339(MaxTime, 0), RFC3339(MaxTime, 1)>>}

CreateBookingRequests ==
    {[RoomID |-> r, StartTime |-> p[1], EndTime |-> p[2]] :
        r \in 1 .. MaxRooms, p \in TimePairs}
    \cup {[RoomID |-> 0, StartTime |-> RFC3339(0, 0), EndTime |-> RFC3339(1, 0)],
          [RoomID |-> 1, StartTime |-> EmptyString, EndTime |-> RFC3339(1, 0)],
          [RoomID |-> 1, StartTime |-> BadString, EndTime |-> RFC3339(1, 0)],
          [RoomID |-> 1, StartTime |-> RFC3339(0, 0), EndTime |-> BadString]}

\* ---- bookings table ----
ActiveStatusesMut == {"confirmed"}
ActiveStatuses == {"pending", "confirmed"}
BookingStatusesMut == {"pending", "confirmed", "cancelled", "bogus"}
BookingStatuses == {"pending", "confirmed", "cancelled"}

\* the interval condition of the scan alone
ScanOverlapMut(b, start, end) == ~(end < b.start_time \/ start > b.end_time)
ScanOverlap(b, start, end) == ~(end <= b.start_time \/ start >= b.end_time)

\* room_id = $1
SameRoomMut(b, room) == TRUE
SameRoom(b, room) == b.room_id = room

\* the WHERE clause of the admission scan, $1 = room, $2 = start, $3 = end
ScanMatchesMut(b, room, start, end) ==
    /\ b.room_id = room
    /\ ~(end <= b.start_time \/ start >= b.end_time)
ScanMatches(b, room, start, end) ==
    /\ SameRoom(b, room)
    /\ b.status \in ActiveStatuses
    /\ ScanOverlap(b, start, end)

\* SELECT count(*) FROM bookings WHERE ...
ScanCount(room, start, end) ==
    Cardinality({id \in DOMAIN bookings : ScanMatches(bookings[id], room, start, end)})

\* ---- handlers between two statements ----
\* the local variables a handler still needs after its first statement
PendingInsert(userID, room, start, end) ==
    [op |-> "create", user |-> userID, target |-> room, start |-> start, end |-> end,
     status |-> ""]
PendingWrite(bookingID, status) ==
    [op |-> "update", user |-> 0, target |-> bookingID, start |-> 0, end |-> 0,
     status |-> status]

NumInflight == BagCardinality(inflight)
NumPendingInserts ==
    BagCardinality([h \in {x \in BagToSet(inflight) : x.op = "create"} |-> inflight[h]])

Init ==
    /\ rooms = << >>
    /\ roomSeq = 0
    /\ bookings = << >>
    /\ bookingSeq = 0
    /\ inflight = EmptyBag
    /\ resp = Response("none", 0, "", 0)
    /\ steps = 0

\* ---- handleCreateBooking ----
\* end.After(start)
EndAfterStartMut(start, end) == end >= start
EndAfterStart(start, end) == end > start

\* the row of INSERT INTO bookings (room_id, user_id, start_time, end_time, status)
\* VALUES ($1, $2, $3, $4, 'confirmed')
NewBookingMut(h) ==
    [room_id |-> h.target, user_id |-> h.user, start_time |-> h.start,
     end_time |-> h.end, status |-> "pending"]
NewBooking(h) ==
    [room_id |-> h.target, user_id |-> h.user, start_time |-> h.start,
     end_time |-> h.end, status |-> "confirmed"]

\* the handler up to and including the admission scan
CreateBookingScan(user, req, dbOK) ==
    LET start == ParseTime(req.StartTime)
        end == ParseTime(req.EndTime)
        reply(status, msg) ==
            /\ resp' = Response("createBooking", status, msg, 0)
            /\ UNCHANGED <<store, inflight>>
    IN
    IF req.RoomID <= 0 \/ req.StartTime.txt = "empty" \/ req.EndTime.txt = "empty"
    THEN reply(StatusBadRequest, "room_id, start_time, end_time required")
    ELSE IF start.err THEN reply(StatusBadRequest, "start not parsed")
    ELSE IF end.err THEN reply(StatusBadRequest, "end not parsed")
    ELSE IF ~EndAfterStart(start.t, end.t) THEN reply(StatusBadRequest, "end must be after start")
    ELSE IF ~dbOK THEN reply(StatusInternalServerError, "db error")
    ELSE IF ScanCount(req.RoomID, start.t, end.t) > 0
    THEN reply(StatusConflict, "time slot already booked")
    ELSE /\ NumInflight < MaxInflight
         /\ bookingSeq + NumPendingInserts < MaxBookings
         /\ inflight' = inflight (+)
                SetToBag({PendingInsert(user.ID, req.RoomID, start.t, end.t)})
         /\ UNCHANGED <<store, resp>>

\* the table after the INSERT statement: a statement that fails stores no row
InsertedMut(h, id, done) ==
    [i \in DOMAIN bookings \cup {id} |-> IF i = id THEN NewBooking(h) ELSE bookings[i]]
Inserted(h, id, done) ==
    IF done
    THEN [i \in DOMAIN bookings \cup {id} |-> IF i = id THEN NewBooking(h) ELSE bookings[i]]
    ELSE bookings

\* room_id BIGINT NOT NULL REFERENCES rooms(id), checked by the INSERT
RoomExistsMut(room) == TRUE
RoomExists(room) == room \in DOMAIN rooms

\* the INSERT ... RETURNING id of a handler whose scan counted no row
CreateBookingInsert(h, dbOK) ==
    /\ h.op = "create"
    /\ BagIn(h, inflight)
    /\ inflight' = inflight (-) SetToBag({h})
    /\ UNCHANGED <<rooms, roomSeq>>
    /\ IF ~dbOK
       THEN /\ resp' = Response("createBooking", StatusInternalServerError, "db error", 0)
            /\ bookings' = Inserted(h, bookingSeq + 1, FALSE)
            /\ UNCHANGED bookingSeq
       ELSE IF ~RoomExists(h.target)
       THEN \* foreign key violation; the sequence value is consumed
            /\ bookingSeq' = bookingSeq + 1
            /\ resp' = Response("createBooking", StatusInternalServerError, "db error", 0)
            /\ bookings' = Inserted(h, bookingSeq + 1, FALSE)
       ELSE LET id == bookingSeq + 1
            IN /\ bookingSeq' = id
               /\ bookings' = Inserted(h, id, TRUE)
               /\ resp' = Response("createBooking", StatusCreated, "", id)

\* the handler ends between its scan and its INSERT (the process is stopped):
\* no statement is issued and no answer is written
AbortCreateBooking(h) ==
    /\ h.op = "create"
    /\ BagIn(h, inflight)
    /\ inflight' = inflight (-) SetToBag({h})
    /\ resp' = Response("createBooking", 0, "aborted", 0)
    /\ UNCHANGED store

\* ---- handleUpdateBooking ----
\* the status strings a PATCH body may carry
StatusInputs == {"", "  ", "pending", "confirmed", "cancelled", " Cancelled ", "bogus"}

\* strings.ToLower(strings.TrimSpace(s))
NormalizeStatus(s) ==
    CASE s = "  " -> ""
      [] s = " Cancelled " -> "cancelled"
      [] OTHER -> s

\* may the actor mutate a booking of this owner?  (the negation of the
\* guard's refusal condition)
MayMutateMut(user, ownerID) == user.ID = ownerID
MayMutate(user, ownerID) == ~(user.Role # "admin" /\ user.ID # ownerID)

\* the answer to a lookup that returned an error: errors.Is(err, sql.ErrNoRows)
\* or not
LookupFailureMut(noRows) == StatusInternalServerError
LookupFailure(noRows) == IF noRows THEN StatusNotFound ELSE StatusInternalServerError

\* the handler up to and including SELECT user_id FROM bookings WHERE id = $1
UpdateBookingLookup(user, bookingID, rawStatus, dbOK) ==
    LET status == NormalizeStatus(rawStatus)
        reply(code, msg) ==
            /\ resp' = Response("updateBooking", code, msg, 0)
            /\ UNCHANGED <<store, inflight>>
    IN
    IF bookingID <= 0 THEN reply(StatusBadRequest, "invalid booking id")
    ELSE IF status = "" THEN reply(StatusBadRequest, "status required")
    ELSE IF ~dbOK THEN reply(LookupFailure(FALSE), "db error")
    ELSE IF bookingID \notin DOMAIN bookings
    THEN reply(LookupFailure(TRUE), "booking not found")
    ELSE IF ~MayMutate(user, bookings[bookingID].user_id)
    THEN reply(StatusForbidden, "access denied")
    ELSE /\ NumInflight < MaxInflight
         /\ inflight' = inflight (+) SetToBag({PendingWrite(bookingID, status)})
         /\ UNCHANGED <<store, resp>>

\* the rows of UPDATE bookings SET status = $1 WHERE id = $2
UpdateWhereMut(id, bookingID) == TRUE
UpdateWhere(id, bookingID) == id = bookingID

\* UPDATE bookings SET status = $1 WHERE id = $2
UpdateBookingWrite(h, dbOK) ==
    /\ h.op = "update"
    /\ BagIn(h, inflight)
    /\ inflight' = inflight (-) SetToBag({h})
    /\ UNCHANGED <<rooms, roomSeq, bookingSeq>>
    /\ IF ~dbOK \/ (h.target \in DOMAIN bookings /\ h.status \notin BookingStatuses)
       THEN \* connection failure, or the CHECK constraint on status
            /\ resp' = Response("updateBooking", StatusInternalServerError, "db error", 0)
            /\ UNCHANGED bookings
       ELSE /\ bookings' = [i \in DOMAIN bookings |->
                              IF UpdateWhere(i, h.target)
                              THEN [bookings[i] EXCEPT !.status = h.status]
                              ELSE bookings[i]]
            /\ resp' = Response("updateBooking", StatusOK, "", 0)

\* ---- handleCancelBooking ----
\* The owner lookup is issued WITHOUT its argument:
\*   a.DB.QueryRow(`SELECT user_id FROM bookings WHERE id = $1`)
\* so the server rejects the statement (there is no parameter $1); the error
\* is not sql.ErrNoRows and the handler answers 500 before anything else.
CancelBooking(user, bookingID, dbOK) ==
    /\ UNCHANGED <<store, inflight>>
    /\ IF bookingID <= 0
       THEN resp' = Response("cancelBooking", StatusBadRequest, "invalid booking id", 0)
       ELSE resp' = Response("cancelBooking", StatusInternalServerError, "db error", 0)

\* ---- listings ----
\* a caller that sends no Authorization header
Anonymous == [ID |-> 0, Role |-> ""]
Credentials == Actors \cup {Anonymous}

\* the routes registered behind authMiddleware
RequiresAuth(op) == op # "roomBookings"

\* the router: authMiddleware answers 401 before the handler of a protected
\* route is called
Routed(op, cred, A) ==
    IF RequiresAuth(op) /\ cred = Anonymous
    THEN /\ resp' = Response(op, StatusUnauthorized, "unauthorized", 0)
         /\ UNCHANGED <<store, inflight>>
    ELSE A

\* a row as rows.Scan fills a Booking
Row(id) ==
    [ID |-> id, RoomID |-> bookings[id].room_id, UserID |-> bookings[id].user_id,
     StartTime |-> bookings[id].start_time, EndTime |-> bookings[id].end_time,
     Status |-> bookings[id].status]

\* the orders in which a query may return the rows of a set of ids
Orderings(ids) ==
    {f \in [1 .. Cardinality(ids) -> ids] : \A i, j \in DOMAIN f : i # j => f[i] # f[j]}
\* ORDER BY start_time / ORDER BY start_time DESC: rows of equal start_time
\* come in any order
OrderByStartTime(f) ==
    \A i \in DOMAIN f : i > 1 => bookings[f[i - 1]].start_time <= bookings[f[i]].start_time
OrderByStartTimeDesc(f) ==
    \A i \in DOMAIN f : i > 1 => bookings[f[i - 1]].start_time >= bookings[f[i]].start_time

\* writeJSON(w, http.StatusOK, res)
Listing(op, rows) == [op |-> op, status |-> StatusOK, error |-> "", id |-> 0, rows |-> rows]

\* handleRoomBookings: WHERE room_id = $1 AND status != 'cancelled'
RoomBookingsWhereMut(b, roomID) == b.room_id = roomID
RoomBookingsWhere(b, roomID) == b.room_id = roomID /\ b.status # "cancelled"

RoomBookings(roomID, dbOK) ==
    /\ UNCHANGED <<store, inflight>>
    /\ IF roomID <= 0
       THEN resp' = Response("roomBookings", StatusBadRequest, "invalid room id", 0)
       ELSE IF ~dbOK
       THEN resp' = Response("roomBookings", StatusInternalServerError, "db error", 0)
       ELSE \E f \in Orderings({id \in DOMAIN bookings :
                                   RoomBookingsWhere(bookings[id], roomID)}) :
               /\ OrderByStartTime(f)
               /\ resp' = Listing("roomBookings", [i \in DOMAIN f |-> Row(f[i])])

\* handleMyBookings: WHERE user_id = $1
MyBookingsWhereMut(b, userID) == TRUE
MyBookingsWhere(b, userID) == b.user_id = userID

MyBookings(user, dbOK) ==
    /\ UNCHANGED <<store, inflight>>
    /\ IF ~dbOK
       THEN resp' = Response("myBookings", StatusInternalServerError, "db error", 0)
       ELSE \E f \in Orderings({id \in DOMAIN bookings :
                                   MyBookingsWhere(bookings[id], user.ID)}) :
               /\ OrderByStartTimeDesc(f)
               /\ resp' = Listing("myBookings", [i \in DOMAIN f |-> Row(f[i])])

\* ---- rooms ----
PlainRoom == [Name |-> "A", Description |-> "", Capacity |-> 1, PhotoURL |-> ""]
RoomRequests ==
    {PlainRoom,
     [Name |-> " B ", Description |-> "d", Capacity |-> 2, PhotoURL |-> "p"],
     [Name |-> "  ", Description |-> "", Capacity |-> 1, PhotoURL |-> ""],
     [Name |-> "A", Description |-> "", Capacity |-> 0, PhotoURL |-> ""]}

\* a JSON body of a room request that also carries "is_active", and what
\* json.Decode keeps of it in a createRoomRequest (a key the struct does not
\* declare is dropped)
RoomBodies ==
    {[Name |-> r.Name, Description |-> r.Description, Capacity |-> r.Capacity,
      PhotoURL |-> r.PhotoURL, IsActive |-> a] : r \in RoomRequests, a \in BOOLEAN}
DecodeRoomRequest(body) ==
    [Name |-> body.Name, Description |-> body.Description, Capacity |-> body.Capacity,
     PhotoURL |-> body.PhotoURL]

\* strings.TrimSpace on the room names above
TrimSpace(s) ==
    CASE s = "  " -> ""
      [] s = " B " -> "B"
      [] OTHER -> s

\* adminOnlyMiddleware: does the request reach the handler?
AdminOnlyMut(user) == TRUE
AdminOnly(user) == ~(user.Role # "admin")

Forbidden(op) ==
    /\ resp' = Response(op, StatusForbidden, "admin access required", 0)
    /\ UNCHANGED <<store, inflight>>

\* handleCreateRoom behind adminOnlyMiddleware
CreateRoom(user, req, dbOK) ==
    IF ~AdminOnly(user) THEN Forbidden("createRoom")
    ELSE LET name == TrimSpace(req.Name)
             id == roomSeq + 1
         IN IF name = "" \/ req.Capacity <= 0
            THEN /\ resp' = Response("createRoom", StatusBadRequest,
                                     "name and capacity > 0 required", 0)
                 /\ UNCHANGED <<store, inflight>>
            ELSE IF ~dbOK
            THEN /\ resp' = Response("createRoom", StatusInternalServerError, "db error", 0)
                 /\ UNCHANGED <<store, inflight>>
            ELSE /\ roomSeq < MaxRooms
                 /\ roomSeq' = id
                 /\ rooms' = [i \in DOMAIN rooms \cup {id} |->
                                IF i = id
                                THEN [name |-> name, description |-> req.Description,
                                      capacity |-> req.Capacity, photo_url |-> req.PhotoURL,
                                      is_active |-> TRUE]
                                ELSE rooms[i]]
                 /\ resp' = Response("createRoom", StatusCreated, "", id)
                 /\ UNCHANGED <<bookings, bookingSeq, inflight>>

\* handleUpdateRoom behind adminOnlyMiddleware
UpdateRoom(user, roomID, req, dbOK) ==
    IF ~AdminOnly(user) THEN Forbidden("updateRoom")
    ELSE IF roomID <= 0
    THEN /\ resp' = Response("updateRoom", StatusBadRequest, "invalid room id", 0)
         /\ UNCHANGED <<store, inflight>>
    ELSE IF ~dbOK \/ (roomID \in DOMAIN rooms /\ ~(req.Capacity > 0))
    THEN \* connection failure, or the CHECK constraint on capacity
         /\ resp' = Response("updateRoom", StatusInternalServerError, "db error", 0)
         /\ UNCHANGED <<store, inflight>>
    ELSE /\ rooms' = [i \in DOMAIN rooms |->
                        IF i = roomID
                        THEN [rooms[i] EXCEPT !.name = req.Name,
                                              !.description = req.Description,
                                              !.capacity = req.Capacity,
                                              !.photo_url = req.PhotoURL]
                        ELSE rooms[i]]
         /\ resp' = Response("updateRoom", StatusOK, "", 0)
         /\ UNCHANGED <<roomSeq, bookings, bookingSeq, inflight>>

\* the bookings that go with a deleted room:
\* room_id BIGINT NOT NULL REFERENCES rooms(id) ON DELETE CASCADE
CascadesMut(b, roomID) == TRUE
Cascades(b, roomID) == b.room_id = roomID

\* handleDeleteRoom behind adminOnlyMiddleware; bookings.room_id is declared
\* REFERENCES rooms(id) ON DELETE CASCADE
DeleteRoom(user, roomID, dbOK) ==
    IF ~AdminOnly(user) THEN Forbidden("deleteRoom")
    ELSE IF roomID <= 0
    THEN /\ resp' = Response("deleteRoom", StatusBadRequest, "invalid room id", 0)
         /\ UNCHANGED <<store, inflight>>
    ELSE IF ~dbOK
    THEN /\ resp' = Response("deleteRoom", StatusInternalServerError, "db error", 0)
         /\ UNCHANGED <<store, inflight>>
    ELSE /\ rooms' = [i \in DOMAIN rooms \ {roomID} |-> rooms[i]]
         /\ bookings' = [i \in {j \in DOMAIN bookings : ~Cascades(bookings[j], roomID)} |->
                           bookings[i]]
         /\ resp' = Response("deleteRoom", StatusOK, "", 0)
         /\ UNCHANGED <<roomSeq, bookingSeq, inflight>>

\* one step of one handler; the model follows the server for MaxSteps steps
Step(A) == steps < MaxSteps /\ steps' = steps + 1 /\ A

BookingSteps ==
    \/ \E user \in Actors, req \in CreateBookingRequests :
          Step(CreateBookingScan(user, req, TRUE))
    \/ \E h \in BagToSet(inflight) : Step(CreateBookingInsert(h, TRUE))
    \/ \E user \in Actors, id \in 0 .. MaxBookings, st \in StatusInputs :
          Step(UpdateBookingLookup(user, id, st, TRUE))
    \/ \E h \in BagToSet(inflight) : Step(UpdateBookingWrite(h, TRUE))
    \/ \E user \in Actors, id \in 0 .. MaxBookings : Step(CancelBooking(user, id, TRUE))

\* All handlers over a store that answers every statement.  The booking
\* handlers take all their inputs; the room handlers carry one request body
\* (no booking handler reads a room's fields, only its id).
Next ==
    \/ BookingSteps
    \/ \E user \in Actors : Step(CreateRoom(user, PlainRoom, TRUE))
    \/ \E user \in Actors, id \in 0 .. MaxRooms : Step(UpdateRoom(user, id, PlainRoom, TRUE))
    \/ \E user \in Actors, id \in 0 .. MaxRooms : Step(DeleteRoom(user, id, TRUE))

Spec == Init /\ [][Next]_vars

\* The room handlers with all their request bodies, over a store that may
\* fail a statement; bookings are created through the create handler, one
\* fixed interval per room.
PlainBookings == {[RoomID |-> r, StartTime |-> RFC3339(0, 0), EndTime |-> RFC3339(1, 0)] :
                    r \in 1 .. MaxRooms}

RoomNext ==
    \/ \E user \in Actors, req \in RoomRequests, dbOK \in BOOLEAN :
          Step(CreateRoom(user, req, dbOK))
    \/ \E user \in Actors, id \in 0 .. MaxRooms, req \in RoomRequests, dbOK \in BOOLEAN :
          Step(UpdateRoom(user, id, req, dbOK))
    \/ \E user \in Actors, id \in 0 .. MaxRooms, dbOK \in BOOLEAN :
          Step(DeleteRoom(user, id, dbOK))
    \/ \E user \in Actors, req \in PlainBookings : Step(CreateBookingScan(user, req, TRUE))
    \/ \E h \in BagToSet(inflight) : Step(CreateBookingInsert(h, TRUE))

RoomSpec == Init /\ [][RoomNext]_vars

\* The booking handlers over a store that may fail any statement (the
\* connection drops, the query is cancelled); rooms are created and deleted by
\* the admin.
FaultNext ==
    \/ \E user \in Actors, req \in CreateBookingRequests, dbOK \in BOOLEAN :
          Step(CreateBookingScan(user, req, dbOK))
    \/ \E h \in BagToSet(inflight), dbOK \in BOOLEAN : Step(CreateBookingInsert(h, dbOK))
    \/ \E user \in Actors, id \in 1 .. MaxBookings, dbOK \in BOOLEAN :
          Step(UpdateBookingLookup(user, id, "cancelled", dbOK))
    \/ \E h \in BagToSet(inflight), dbOK \in BOOLEAN : Step(UpdateBookingWrite(h, dbOK))
    \/ Step(CreateRoom(AuthUser(AdminId), PlainRoom, TRUE))
    \/ \E id \in 1 .. MaxRooms : Step(DeleteRoom(AuthUser(AdminId), id, TRUE))

FaultSpec == Init /\ [][FaultNext]_vars

\* The listings: bookings are requested with every valid body, cancelled by
\* their owner or the admin, in rooms the admin creates, and listed by room
\* (by anyone) and by owner, over a store that may fail a listing query.
ListNext ==
    \/ \E user \in Actors, req \in {r \in CreateBookingRequests :
                                      ~ParseTime(r.StartTime).err /\ ~ParseTime(r.EndTime).err} :
          Step(CreateBookingScan(user, req, TRUE))
    \/ \E h \in BagToSet(inflight) : Step(CreateBookingInsert(h, TRUE))
    \/ \E id \in 1 .. MaxBookings :
          Step(UpdateBookingLookup(AuthUser(AdminId), id, "cancelled", TRUE))
    \/ \E h \in BagToSet(inflight) : Step(UpdateBookingWrite(h, TRUE))
    \/ Step(CreateRoom(AuthUser(AdminId), PlainRoom, TRUE))
    \/ \E cred \in Credentials, id \in 0 .. MaxRooms, dbOK \in BOOLEAN :
          Step(Routed("roomBookings", cred, RoomBookings(id, dbOK)))
    \/ \E cred \in Credentials, dbOK \in BOOLEAN :
          Step(Routed("myBookings", cred, MyBookings(cred, dbOK)))

ListSpec == Init /\ [][ListNext]_vars

\* The life of a booking: bookings are requested by every actor (one fixed
\* interval per room) in rooms the admin creates, and their status is updated
\* and cancelled by every actor with every status string.  A booking is
\* stored after three statements and each status change takes two more, so
\* this specification follows the server one statement further than Step.
LongStep(A) == steps < MaxSteps + 1 /\ steps' = steps + 1 /\ A

LifeNext ==
    \/ \E user \in Actors, req \in PlainBookings :
          LongStep(CreateBookingScan(user, req, TRUE))
    \/ \E h \in BagToSet(inflight) : LongStep(CreateBookingInsert(h, TRUE))
    \/ \E user \in Actors, id \in 0 .. MaxBookings, st \in StatusInputs :
          LongStep(UpdateBookingLookup(user, id, st, TRUE))
    \/ \E h \in BagToSet(inflight) : LongStep(UpdateBookingWrite(h, TRUE))
    \/ \E user \in Actors, id \in 0 .. MaxBookings : LongStep(CancelBooking(user, id, TRUE))
    \/ LongStep(CreateRoom(AuthUser(AdminId), PlainRoom, TRUE))

LifeSpec == Init /\ [][LifeNext]_vars

\* The life of a booking while the admin also deletes rooms, between the two
\* statements of a handler as well.
CascadeNext ==
    \/ LifeNext
    \/ \E id \in 1 .. MaxRooms : LongStep(DeleteRoom(AuthUser(AdminId), id, TRUE))

CascadeSpec == Init /\ [][CascadeNext]_vars

\* The booking handlers when the create calls of a room run one at a time
\* (no scan for a room starts while a handler that scanned for that room has
\* not inserted yet) and no status write brings a cancelled booking back to
\* pending or confirmed; create calls of different rooms and all other
\* handlers interleave as before.
RoomIdle(room) == ~\E h \in BagToSet(inflight) : h.op = "create" /\ h.target = room
Revives(h) ==
    /\ h.target \in DOMAIN bookings
    /\ bookings[h.target].status = "cancelled"
    /\ h.status \in {"pending", "confirmed"}

SerialNext ==
    \/ \E user \in Actors, req \in CreateBookingRequests :
          RoomIdle(req.RoomID) /\ LongStep(CreateBookingScan(user, req, TRUE))
    \/ \E h \in BagToSet(inflight) : LongStep(CreateBookingInsert(h, TRUE))
    \/ \E id \in 1 .. MaxBookings, st \in BookingStatuses :
          LongStep(UpdateBookingLookup(AuthUser(AdminId), id, st, TRUE))
    \/ \E h \in BagToSet(inflight) : ~Revives(h) /\ LongStep(UpdateBookingWrite(h, TRUE))
    \/ LongStep(CreateRoom(AuthUser(AdminId), PlainRoom, TRUE))
    \/ \E id \in 1 .. MaxRooms : LongStep(DeleteRoom(AuthUser(AdminId), id, TRUE))

SerialSpec == Init /\ [][SerialNext]_vars

\* The create handler with every request body over a store that may fail
\* either statement, with handlers that end between their two statements, in
\* rooms the admin creates and deletes.
CreateNext ==
    \/ \E user \in Actors, req \in CreateBookingRequests, dbOK \in BOOLEAN :
          Step(CreateBookingScan(user, req, dbOK))
    \/ \E h \in BagToSet(inflight), dbOK \in BOOLEAN : Step(CreateBookingInsert(h, dbOK))
    \/ \E h \in BagToSet(inflight) : Step(AbortCreateBooking(h))
    \/ Step(CreateRoom(AuthUser(AdminId), PlainRoom, TRUE))
    \/ \E id \in 1 .. MaxRooms : Step(DeleteRoom(AuthUser(AdminId), id, TRUE))

CreateSpec == Init /\ [][CreateNext]_vars

\* The interval condition of the admission scan on its own: the table holds
\* one booking with any interval whose end is after its start, and the
\* condition is evaluated for every such requested interval, and with the two
\* intervals in each other's place.
Instants == 0 .. MaxTime + 1
Intervals == {p \in Instants \X Instants : p[1] < p[2]}
StoredInterval(p) ==
    [room_id |-> 1, user_id |-> 1, start_time |-> p[1], end_time |-> p[2],
     status |-> "confirmed"]

ScanInit ==
    /\ rooms = [i \in {1} |-> [name |-> "A", description |-> "", capacity |-> 1,
                                photo_url |-> "", is_active |-> TRUE]]
    /\ roomSeq = 1
    /\ \E p \in Intervals : bookings = [i \in {1} |-> StoredInterval(p)]
    /\ bookingSeq = 1
    /\ inflight = EmptyBag
    /\ resp = Response("none", 0, "", 0)
    /\ steps = 0

\* NOT ($3 <= start_time OR $2 >= end_time) for the stored row and for the
\* requested interval $2, $3
EvalScanOverlap(start, end) ==
    /\ resp' = [op |-> "scanOverlap", start |-> start, end |-> end,
                hit |-> ScanOverlap(bookings[1], start, end),
                swapped |-> ScanOverlap(StoredInterval(<<start, end>>),
                                        bookings[1].start_time, bookings[1].end_time)]
    /\ UNCHANGED <<store, inflight>>

ScanNext == \E p \in Intervals : Step(EvalScanOverlap(p[1], p[2]))

ScanSpec == ScanInit /\ [][ScanNext]_vars

(***************************************************************************)
(* Properties                                                              *)
(***************************************************************************)

\* the overlap contract: a.start < b.end AND b.start < a.end
Overlaps(s1, e1, s2, e2) == s1 < e2 /\ s2 < e1

Active(id) == bookings[id].status \in {"pending", "confirmed"}

\* a create request that passes the handler's validation, and its instants
Instant(str) == str.h - str.off
WellFormed(req) ==
    /\ req.RoomID > 0
    /\ req.StartTime.txt = "rfc3339"
    /\ req.EndTime.txt = "rfc3339"
ValidCreate(req) == WellFormed(req) /\ Instant(req.EndTime) > Instant(req.StartTime)

\* the stored bookings a request really collides with
Colliding(req) ==
    {id \in DOMAIN bookings :
        /\ bookings[id].room_id = req.RoomID
        /\ Active(id)
        /\ Overlaps(Instant(req.StartTime), Instant(req.EndTime),
                    bookings[id].start_time, bookings[id].end_time)}

\* C1: in every reachable state any two distinct pending-or-confirmed bookings
\* of the same room have non-overlapping half-open intervals.
NonOverlapInvariant ==
    \A i, j \in DOMAIN bookings :
        (i # j /\ bookings[i].room_id = bookings[j].room_id /\ Active(i) /\ Active(j))
        => ~Overlaps(bookings[i].start_time, bookings[i].end_time,
                     bookings[j].start_time, bookings[j].end_time)

\* C2: admissions are linearizable per room: an insert that answers 201 never
\* stores a booking that overlaps a pending-or-confirmed booking already stored
\* for that room, so of two concurrent overlapping calls at most one succeeds.
RaceSafety ==
    [][\A h \in BagToSet(inflight) :
          (h.op = "create" /\ CreateBookingInsert(h, TRUE)
             /\ resp'.status = StatusCreated)
          => ~\E id \in DOMAIN bookings :
                 /\ bookings[id].room_id = h.target
                 /\ Active(id)
                 /\ Overlaps(h.start, h.end, bookings[id].start_time,
                             bookings[id].end_time)]_vars

\* what every first step of the create handler looks like: it answers, or it
\* answers nothing and leaves a handler in flight
CreateShaped == resp'.op = "createBooking" \/ (resp' = resp /\ inflight' # inflight)
ValidCreateRequests == {req \in CreateBookingRequests : ValidCreate(req)}

\* C3: a valid create call that overlaps a stored pending-or-confirmed booking
\* of its room is answered 409 and changes nothing; when the only overlapping
\* stored bookings are cancelled or belong to another room the call is not
\* refused and goes on to its insert.
ConflictDetection ==
    [][CreateShaped =>
       \A user \in Actors, req \in ValidCreateRequests :
          CreateBookingScan(user, req, TRUE)
          => IF Colliding(req) # {}
             THEN /\ resp' = Response("createBooking", StatusConflict,
                                      "time slot already booked", 0)
                  /\ UNCHANGED <<store, inflight>>
             ELSE /\ BagCardinality(inflight') = BagCardinality(inflight) + 1
                  /\ UNCHANGED <<store, resp>>]_vars

\* C3 witness: a call has just been refused with 409 while a pending-or-
\* confirmed booking is stored
ConflictRefused ==
    /\ resp = Response("createBooking", StatusConflict, "time slot already booked", 0)
    /\ \E id \in DOMAIN bookings : Active(id)

\* a call is on its way to the insert although a cancelled booking of its
\* room overlaps it (the second case of C3 is exercised too)
PassedOverCancelled ==
    \E h \in BagToSet(inflight), id \in DOMAIN bookings :
        /\ h.op = "create"
        /\ bookings[id].room_id = h.target
        /\ bookings[id].status = "cancelled"
        /\ Overlaps(h.start, h.end, bookings[id].start_time, bookings[id].end_time)

\* the stored pending-or-confirmed bookings of the room that end exactly at
\* the request's start or start exactly at its end
Touching(req) ==
    {id \in DOMAIN bookings :
        /\ bookings[id].room_id = req.RoomID
        /\ Active(id)
        /\ \/ bookings[id].end_time = Instant(req.StartTime)
           \/ bookings[id].start_time = Instant(req.EndTime)}

\* no stored pending-or-confirmed booking of the room reaches into the request
OnlyTouching(req) ==
    /\ Touching(req) # {}
    /\ \A id \in DOMAIN bookings :
          (bookings[id].room_id = req.RoomID /\ Active(id))
          => \/ bookings[id].end_time <= Instant(req.StartTime)
             \/ Instant(req.EndTime) <= bookings[id].start_time

\* C4: a valid create call that only touches the stored bookings of its room
\* (one ends when it starts, or starts when it ends, none reaches into it)
\* passes the scan, and the insert of a call that passed stores its interval
\* with answer 201 while the room exists; this holds for either order in time.
BackToBackAdmission ==
    [][/\ CreateShaped =>
            \A user \in Actors, req \in ValidCreateRequests :
               (OnlyTouching(req) /\ CreateBookingScan(user, req, TRUE))
               => inflight' = inflight (+) SetToBag({PendingInsert(user.ID, req.RoomID,
                                   Instant(req.StartTime), Instant(req.EndTime))})
       /\ \A h \in BagToSet(inflight) :
            (h.op = "create" /\ h.target \in DOMAIN rooms /\ CreateBookingInsert(h, TRUE))
            => /\ resp'.status = StatusCreated
               /\ resp'.id \in DOMAIN bookings' \ DOMAIN bookings
               /\ bookings'[resp'.id].start_time = h.start
               /\ bookings'[resp'.id].end_time = h.end
               /\ bookings'[resp'.id].status \in {"pending", "confirmed"}]_vars

\* C4 witness: two stored confirmed bookings of one room, the later admitted
\* one ending exactly when the earlier admitted one starts
TouchingAdmitted ==
    \E i, j \in DOMAIN bookings :
        /\ i < j
        /\ bookings[i].room_id = bookings[j].room_id
        /\ bookings[i].status = "confirmed" /\ bookings[j].status = "confirmed"
        /\ bookings[j].end_time = bookings[i].start_time

\* the other order of submission is reached as well
TouchingAdmittedAfter ==
    \E i, j \in DOMAIN bookings :
        /\ i < j
        /\ bookings[i].room_id = bookings[j].room_id
        /\ bookings[i].status = "confirmed" /\ bookings[j].status = "confirmed"
        /\ bookings[i].end_time = bookings[j].start_time

\* C5: a create call whose parsed end is not after its parsed start is
\* answered 400 and leaves the store and the handlers in flight untouched,
\* whether or not the store would answer (no statement is issued).
EmptyIntervalRequests ==
    {req \in CreateBookingRequests :
        WellFormed(req) /\ Instant(req.EndTime) <= Instant(req.StartTime)}
ValidationBeforeStore ==
    [][CreateShaped =>
       \A user \in Actors, req \in EmptyIntervalRequests, dbOK \in BOOLEAN :
          CreateBookingScan(user, req, dbOK)
          => /\ resp'.status = StatusBadRequest
             /\ resp'.op = "createBooking"
             /\ UNCHANGED <<store, inflight>>]_vars

\* C5 witness: the handler has just refused an interval with end <= start
\* while a booking is stored
EndNotAfterStartRefused ==
    /\ resp = Response("createBooking", StatusBadRequest, "end must be after start", 0)
    /\ bookings # << >>

\* C6: an update-status or cancel call on an existing booking by an actor who
\* is neither an admin nor its owner is answered 403 and changes no booking.
OwnershipGate ==
    [][\A user \in Actors, id \in DOMAIN bookings :
          (user.Role # "admin" /\ user.ID # bookings[id].user_id)
          => /\ \A st \in StatusInputs :
                  (NormalizeStatus(st) # "" /\ UpdateBookingLookup(user, id, st, TRUE))
                  => (resp'.status = StatusForbidden /\ UNCHANGED <<store, inflight>>)
             /\ CancelBooking(user, id, TRUE)
                  => (resp'.status = StatusForbidden /\ UNCHANGED <<store, inflight>>)]_vars

\* C7: a cancel call on an existing booking by its owner or by an admin is
\* answered 200 and the booking is cancelled afterwards.
CancelByOwnerOrAdmin ==
    [][\A user \in Actors, id \in DOMAIN bookings :
          ((user.Role = "admin" \/ user.ID = bookings[id].user_id)
             /\ CancelBooking(user, id, TRUE))
          => /\ resp'.status = StatusOK
             /\ id \in DOMAIN bookings'
             /\ bookings'[id].status = "cancelled"]_vars

AcceptableRoomRequests ==
    {req \in RoomRequests : TrimSpace(req.Name) # "" /\ req.Capacity > 0}
NonAdmin(user) == user.Role # "admin"
Refused == resp'.status = StatusForbidden /\ UNCHANGED <<store, inflight>>

\* C8: a room create, update or delete by a non-admin actor is answered 403
\* and leaves rooms and bookings unchanged; by an admin, with a non-empty name
\* and a positive capacity and the store answering, a create stores a new room
\* with the request's fields, an update leaves the room with the request's
\* fields, and a delete removes the room.
ResourceGate ==
    [][/\ resp'.op = "createRoom" =>
            \A user \in Actors :
               IF NonAdmin(user)
               THEN \A req \in RoomRequests, dbOK \in BOOLEAN :
                       CreateRoom(user, req, dbOK) => Refused
               ELSE \A req \in AcceptableRoomRequests :
                       CreateRoom(user, req, TRUE)
                       => /\ resp'.status = StatusCreated
                          /\ resp'.id \in DOMAIN rooms' \ DOMAIN rooms
                          /\ rooms'[resp'.id].name = TrimSpace(req.Name)
                          /\ rooms'[resp'.id].description = req.Description
                          /\ rooms'[resp'.id].capacity = req.Capacity
                          /\ rooms'[resp'.id].photo_url = req.PhotoURL
                          /\ \A r \in DOMAIN rooms : rooms'[r] = rooms[r]
                          /\ bookings' = bookings
       /\ resp'.op = "updateRoom" =>
            \A user \in Actors, id \in 1 .. MaxRooms :
               IF NonAdmin(user)
               THEN \A req \in RoomRequests, dbOK \in BOOLEAN :
                       UpdateRoom(user, id, req, dbOK) => Refused
               ELSE \A req \in AcceptableRoomRequests :
                       UpdateRoom(user, id, req, TRUE)
                       => /\ resp'.status = StatusOK
                          /\ DOMAIN rooms' = DOMAIN rooms
                          /\ id \in DOMAIN rooms =>
                                /\ rooms'[id].name = req.Name
                                /\ rooms'[id].description = req.Description
                                /\ rooms'[id].capacity = req.Capacity
                                /\ rooms'[id].photo_url = req.PhotoURL
                          /\ \A r \in DOMAIN rooms \ {id} : rooms'[r] = rooms[r]
                          /\ bookings' = bookings
       /\ resp'.op = "deleteRoom" =>
            \A user \in Actors, id \in 1 .. MaxRooms :
               IF NonAdmin(user)
               THEN \A dbOK \in BOOLEAN : DeleteRoom(user, id, dbOK) => Refused
               ELSE DeleteRoom(user, id, TRUE)
                    => /\ resp'.status = StatusOK
                       /\ DOMAIN rooms' = DOMAIN rooms \ {id}
                       /\ \A r \in DOMAIN rooms' : rooms'[r] = rooms[r]]_vars

\* C8 witness: a room request has just been refused with 403 while rooms and
\* bookings are stored, one room carrying the fields of an admin's update
\* (its name is stored untrimmed)
RoomGateExercised ==
    /\ resp.status = StatusForbidden
    /\ resp.op \in {"createRoom", "updateRoom", "deleteRoom"}
    /\ bookings # << >>
    /\ \E r \in DOMAIN rooms : rooms[r].name = " B "

\* C9: the first step of a create call that passes leaves in flight exactly
\* the caller's id, the requested room and the parsed interval, and an insert
\* answered 201 adds exactly one booking, confirmed, with that room, owner and
\* interval, under a new id, which is the id returned.
CreateStoresRequest ==
    [][/\ (resp' = resp /\ inflight' # inflight) =>
            \A user \in Actors, req \in ValidCreateRequests :
               CreateBookingScan(user, req, TRUE)
               => inflight' = inflight (+) SetToBag({PendingInsert(user.ID, req.RoomID,
                                   Instant(req.StartTime), Instant(req.EndTime))})
       /\ \A h \in BagToSet(inflight) :
            (h.op = "create" /\ CreateBookingInsert(h, TRUE)
               /\ resp'.status = StatusCreated)
            => /\ DOMAIN bookings' = DOMAIN bookings \cup {resp'.id}
               /\ resp'.id \notin DOMAIN bookings
               /\ resp'.id > bookingSeq
               /\ bookings'[resp'.id] = [room_id |-> h.target, user_id |-> h.user,
                                         start_time |-> h.start, end_time |-> h.end,
                                         status |-> "confirmed"]
               /\ \A id \in DOMAIN bookings : bookings'[id] = bookings[id]]_vars

\* C9 witness: the last answer is a 201 of the create handler and the booking
\* of the returned id is stored, owned by a non-admin user, next to another one
BookingCreated ==
    /\ resp.op = "createBooking" /\ resp.status = StatusCreated
    /\ resp.id \in DOMAIN bookings
    /\ bookings[resp.id].user_id # AdminId
    /\ Cardinality(DOMAIN bookings) > 1

\* C10: a valid create call naming a room id that is not in the rooms table
\* is answered 404 and stores nothing.
UnknownRoomNotFound ==
    [][CreateShaped =>
       \A user \in Actors, req \in ValidCreateRequests :
          (req.RoomID \notin DOMAIN rooms /\ CreateBookingScan(user, req, TRUE))
          => /\ resp'.status = StatusNotFound
             /\ UNCHANGED <<store, inflight>>]_vars

\* the ids a listing returns, and whether it returns each stored row as it is
ListedIds(rows) == {rows[i].ID : i \in DOMAIN rows}
ListsExactly(rows, ids) ==
    /\ ListedIds(rows) = ids
    /\ Len(rows) = Cardinality(ids)
    /\ \A i \in DOMAIN rows :
          /\ rows[i].RoomID = bookings[rows[i].ID].room_id
          /\ rows[i].UserID = bookings[rows[i].ID].user_id
          /\ rows[i].StartTime = bookings[rows[i].ID].start_time
          /\ rows[i].EndTime = bookings[rows[i].ID].end_time
          /\ rows[i].Status = bookings[rows[i].ID].status

\* C11: the room-scoped listing, asked by anyone (with or without
\* credentials) while the store answers, is answered 200 with exactly the
\* stored bookings of that room whose status is not cancelled, each once,
\* in ascending order of start time, and changes nothing.
RoomListing ==
    [][resp'.op = "roomBookings" =>
       \A cred \in Credentials, room \in 1 .. MaxRooms :
          Routed("roomBookings", cred, RoomBookings(room, TRUE))
          => /\ resp'.status = StatusOK
             /\ ListsExactly(resp'.rows,
                             {id \in DOMAIN bookings :
                                 /\ bookings[id].room_id = room
                                 /\ bookings[id].status # "cancelled"})
             /\ \A i, j \in DOMAIN resp'.rows :
                   i < j => resp'.rows[i].StartTime <= resp'.rows[j].StartTime
             /\ UNCHANGED <<store, inflight>>]_vars

\* C11 witness: a room listing of two bookings, the one created later first
\* because it starts earlier
RoomListed ==
    /\ resp.op = "roomBookings" /\ resp.status = StatusOK
    /\ Len(resp.rows) = 2
    /\ resp.rows[1].ID > resp.rows[2].ID
    /\ resp.rows[1].StartTime < resp.rows[2].StartTime

\* a room listing has left out the cancelled booking of its room
CancelledNotListed ==
    /\ resp.op = "roomBookings" /\ resp.status = StatusOK
    /\ resp.rows = << >>
    /\ \E id \in DOMAIN bookings : bookings[id].status = "cancelled"
    /\ \A id \in DOMAIN bookings : bookings[id].room_id = 1

\* C12: the owner-scoped listing of an authenticated caller, while the store
\* answers, is answered 200 with exactly the stored bookings whose owner is
\* the caller, in every status, each once, in descending order of start
\* time; it contains no booking of another owner.
OwnListing ==
    [][resp'.op = "myBookings" =>
       \A user \in Actors :
          Routed("myBookings", user, MyBookings(user, TRUE))
          => /\ resp'.status = StatusOK
             /\ ListsExactly(resp'.rows,
                             {id \in DOMAIN bookings : bookings[id].user_id = user.ID})
             /\ \A i \in DOMAIN resp'.rows : resp'.rows[i].UserID = user.ID
             /\ \A i, j \in DOMAIN resp'.rows :
                   i < j => resp'.rows[i].StartTime >= resp'.rows[j].StartTime
             /\ UNCHANGED <<store, inflight>>]_vars

\* C12 witness: an owner listing of one booking while another owner's
\* booking is stored
OwnListed ==
    /\ resp.op = "myBookings" /\ resp.status = StatusOK
    /\ Len(resp.rows) = 1
    /\ \E id \in DOMAIN bookings : bookings[id].user_id # resp.rows[1].UserID

\* an owner listing shows the caller's cancelled booking
CancelledListed ==
    /\ resp.op = "myBookings" /\ resp.status = StatusOK
    /\ \E i \in DOMAIN resp.rows : resp.rows[i].Status = "cancelled"

\* an owner listing of two bookings, the later start first
OwnListedDescending ==
    /\ resp.op = "myBookings" /\ resp.status = StatusOK
    /\ Len(resp.rows) = 2
    /\ resp.rows[1].StartTime > resp.rows[2].StartTime

\* C13: cancelled is terminal: no step changes the status of a stored
\* cancelled booking to pending or confirmed.
CancelledIsTerminal ==
    [][\A id \in DOMAIN bookings \cap DOMAIN bookings' :
          bookings[id].status = "cancelled"
          => bookings'[id].status \notin {"pending", "confirmed"}]_vars

\* the transitions of the lifecycle
LegalTransitions ==
    {<<"pending", "confirmed">>, <<"pending", "cancelled">>, <<"confirmed", "cancelled">>}

\* C14: the write of an authorized update-status call on a stored booking
\* either follows pending -> confirmed, pending -> cancelled or
\* confirmed -> cancelled, or it is answered with an error and leaves the
\* bookings as they are.
TransitionTable ==
    [][\A h \in BagToSet(inflight) :
          (h.op = "update" /\ h.target \in DOMAIN bookings /\ UpdateBookingWrite(h, TRUE))
          => \/ <<bookings[h.target].status, h.status>> \in LegalTransitions
             \/ resp'.status # StatusOK /\ bookings' = bookings]_vars

\* C15: a cancel call by the owner or an admin on a booking that is already
\* cancelled is answered 200 and leaves the bookings as they are.
CancelIdempotent ==
    [][\A user \in Actors, id \in DOMAIN bookings :
          (/\ bookings[id].status = "cancelled"
           /\ user.Role = "admin" \/ user.ID = bookings[id].user_id
           /\ CancelBooking(user, id, TRUE))
          => resp'.status = StatusOK /\ bookings' = bookings]_vars

\* C16: no stored booking ever has status pending.
PendingUnreachable == \A id \in DOMAIN bookings : bookings[id].status # "pending"

\* C17: every stored booking has its end after its start.
EndAfterStartStored ==
    \A id \in DOMAIN bookings : bookings[id].end_time > bookings[id].start_time

\* C17 witness: a request whose end is not after its start has just been
\* refused while a booking is stored whose status has been updated since its
\* creation
StoredAndRefused ==
    /\ resp = Response("createBooking", StatusBadRequest, "end must be after start", 0)
    /\ \E id \in DOMAIN bookings : bookings[id].status = "cancelled"

\* the fields of a stored booking other than its status
SameButStatus(old, new) ==
    /\ new.room_id = old.room_id
    /\ new.user_id = old.user_id
    /\ new.start_time = old.start_time
    /\ new.end_time = old.end_time

\* C18: a booking keeps its room, owner, start and end in every step it
\* survives; the write of an update-status call changes at most the status of
\* the booking it targets and no other booking, and a cancel call changes no
\* more than that either.
BookingFrame ==
    [][/\ \A id \in DOMAIN bookings \cap DOMAIN bookings' :
             SameButStatus(bookings[id], bookings'[id])
       /\ \A h \in BagToSet(inflight) :
             (h.op = "update" /\ UpdateBookingWrite(h, TRUE))
             => /\ DOMAIN bookings' = DOMAIN bookings
                /\ \A id \in DOMAIN bookings :
                      id # h.target => bookings'[id] = bookings[id]
       /\ resp'.op = "cancelBooking" =>
             \A user \in Actors, target \in 0 .. MaxBookings :
                CancelBooking(user, target, TRUE)
                => /\ DOMAIN bookings' = DOMAIN bookings
                   /\ \A id \in DOMAIN bookings :
                         id # target => bookings'[id] = bookings[id]]_vars

\* C18 witness: of two stored bookings one has had its status updated, the
\* other still has the status it was created with
OneOfTwoUpdated ==
    \E i, j \in DOMAIN bookings :
        /\ bookings[i].status = "cancelled"
        /\ bookings[j].status = "confirmed"
        /\ resp.op = "updateBooking" /\ resp.status = StatusOK

\* C19: for a requested and a stored interval, each with its start before
\* its end, the condition of the admission scan is true exactly when the
\* request starts before the stored interval ends and the stored interval
\* starts before the request ends, and it gives the same answer with the two
\* intervals swapped.
ScanIsOverlap ==
    resp.op = "scanOverlap"
    => /\ resp.hit <=> Overlaps(resp.start, resp.end,
                                bookings[1].start_time, bookings[1].end_time)
       /\ resp.hit <=> resp.swapped

\* C19 witness: the condition has been evaluated for two intervals that only
\* touch (the stored one starts where the requested one ends)
TouchingEvaluated ==
    /\ resp.op = "scanOverlap"
    /\ resp.end = bookings[1].start_time

\* it has also been evaluated for two intervals that overlap without being equal
OverlapEvaluated ==
    /\ resp.op = "scanOverlap"
    /\ resp.hit
    /\ resp.start < bookings[1].start_time /\ resp.end < bookings[1].end_time

\* C20: a create call that does not end with 201 leaves the stored bookings
\* exactly as they were: neither its scan (refused by validation, refused with
\* 409, failed, or passed), nor an insert that fails, nor a handler that ends
\* between scan and insert stores, changes or removes a booking.  (For the
\* scan: a step that changes the bookings is the scan of no call.)
NoPartialBooking ==
    [][/\ (CreateShaped /\ bookings' # bookings) =>
            \A user \in Actors, req \in CreateBookingRequests, dbOK \in BOOLEAN :
               ~CreateBookingScan(user, req, dbOK)
       /\ resp'.op = "createBooking" =>
            \A h \in BagToSet(inflight) :
               /\ \A dbOK \in BOOLEAN :
                     (CreateBookingInsert(h, dbOK) /\ resp'.status # StatusCreated)
                     => bookings' = bookings
               /\ AbortCreateBooking(h) => bookings' = bookings]_vars

\* C20 witness: an INSERT has just failed (a statement of the store failed, or
\* the room was gone and the sequence value was consumed) while a booking is
\* stored
InsertFailed ==
    /\ resp = Response("createBooking", StatusInternalServerError, "db error", 0)
    /\ bookings # << >>
    /\ bookingSeq > Cardinality(DOMAIN bookings)

\* a handler has just ended between its scan and its insert while a booking is
\* stored
CreateAborted ==
    /\ resp = Response("createBooking", 0, "aborted", 0)
    /\ bookings # << >>

\* a call has just been refused with 409 / a statement has just failed while
\* no sequence value is missing
CreateRefusedOrFailed ==
    /\ resp.op = "createBooking"
    /\ resp.status \in {StatusConflict, StatusInternalServerError}
    /\ bookings # << >>
    /\ bookingSeq = Cardinality(DOMAIN bookings)

\* the pending-or-confirmed bookings of the request's own room that the
\* scan's interval condition selects
OwnRoomHits(req) ==
    {id \in DOMAIN bookings :
        /\ bookings[id].room_id = req.RoomID
        /\ bookings[id].status \in {"pending", "confirmed"}
        /\ ScanOverlap(bookings[id], Instant(req.StartTime), Instant(req.EndTime))}

\* C21: whether a valid create call is refused or goes on to its insert is
\* decided by the pending-or-confirmed bookings of its own room alone,
\* whatever is stored or in flight for other rooms; and the insert of a call
\* that went on is answered 201 while its room exists, whatever else is in
\* flight.
CrossRoomIndependence ==
    [][/\ CreateShaped =>
            \A user \in Actors, req \in ValidCreateRequests :
               CreateBookingScan(user, req, TRUE)
               => IF OwnRoomHits(req) = {}
                  THEN /\ resp' = resp
                       /\ inflight' = inflight (+) SetToBag({PendingInsert(user.ID,
                                 req.RoomID, Instant(req.StartTime), Instant(req.EndTime))})
                  ELSE /\ resp'.status = StatusConflict
                       /\ inflight' = inflight
       /\ resp'.op = "createBooking" =>
            \A h \in BagToSet(inflight) :
               (h.op = "create" /\ h.target \in DOMAIN rooms /\ CreateBookingInsert(h, TRUE))
               => resp'.status = StatusCreated]_vars

\* C21 witness: a booking has just been admitted to one room while a
\* pending-or-confirmed booking of another room overlaps it
AdmittedBesideOtherRoom ==
    /\ resp.op = "createBooking" /\ resp.status = StatusCreated
    /\ resp.id \in DOMAIN bookings
    /\ \E j \in DOMAIN bookings :
          /\ bookings[j].room_id # bookings[resp.id].room_id
          /\ Active(j)
          /\ Overlaps(bookings[j].start_time, bookings[j].end_time,
                      bookings[resp.id].start_time, bookings[resp.id].end_time)

\* a call has passed its scan while a create call for another room with an
\* overlapping interval is in flight
PassedBesideOtherRoom ==
    \E h, g \in BagToSet(inflight) :
        /\ h.op = "create" /\ g.op = "create"
        /\ h.target # g.target
        /\ Overlaps(h.start, h.end, g.start, g.end)

\* C22: an update-status call (a positive id and a status that is not empty
\* after trimming) on a booking id that is not stored is answered 404
\* "booking not found" and changes nothing, for every actor, admin or not.
UpdateMissingNotFound ==
    [][resp'.op = "updateBooking" =>
       \A user \in Actors, id \in 1 .. MaxBookings, st \in StatusInputs :
          (/\ id \notin DOMAIN bookings
           /\ NormalizeStatus(st) # ""
           /\ UpdateBookingLookup(user, id, st, TRUE))
          => /\ resp' = Response("updateBooking", StatusNotFound, "booking not found", 0)
             /\ UNCHANGED <<store, inflight>>]_vars

\* C22 witness: an update-status call has just been answered 404 while
\* another booking is stored
MissingBookingRefused ==
    /\ resp = Response("updateBooking", StatusNotFound, "booking not found", 0)
    /\ bookings # << >>

\* the same for the id of a booking that was stored and went with its room
RemovedBookingRefused ==
    /\ resp = Response("updateBooking", StatusNotFound, "booking not found", 0)
    /\ bookingSeq > 0
    /\ bookings = << >>

\* C23: after an admin's successful update of a stored room, the room's name,
\* description, capacity, photo reference and active flag are those the
\* request supplied.
UpdateReplacesAllFields ==
    [][resp'.op = "updateRoom" =>
       \A id \in DOMAIN rooms, body \in RoomBodies :
          (UpdateRoom(AuthUser(AdminId), id, DecodeRoomRequest(body), TRUE)
             /\ resp'.status = StatusOK)
          => /\ rooms'[id].name = body.Name
             /\ rooms'[id].description = body.Description
             /\ rooms'[id].capacity = body.Capacity
             /\ rooms'[id].photo_url = body.PhotoURL
             /\ rooms'[id].is_active = body.IsActive]_vars

\* the status strings of a PATCH body that name one of the three statuses
ThreeStatuses == {"pending", "confirmed", "cancelled"}

\* C24: an update-status call by the owner or an admin on a stored booking,
\* asking for pending, confirmed or cancelled, is not refused whatever the
\* booking's status is, and its write on the stored booking is answered 200
\* and leaves the booking with the status asked for.
UpdateSetsAnyStatus ==
    [][/\ (resp' = resp /\ inflight' # inflight) \/ resp'.op = "updateBooking" =>
            \A user \in Actors, id \in DOMAIN bookings, st \in ThreeStatuses :
               (/\ user.Role = "admin" \/ user.ID = bookings[id].user_id
                /\ UpdateBookingLookup(user, id, st, TRUE))
               => /\ resp' = resp
                  /\ inflight' = inflight (+) SetToBag({PendingWrite(id, st)})
       /\ resp'.op = "updateBooking" =>
            \A h \in BagToSet(inflight) :
               (/\ h.op = "update"
                /\ h.target \in DOMAIN bookings
                /\ h.status \in ThreeStatuses
                /\ UpdateBookingWrite(h, TRUE))
               => /\ resp'.status = StatusOK
                  /\ h.target \in DOMAIN bookings'
                  /\ bookings'[h.target].status = h.status]_vars

\* C24 witness: an update has just been answered 200 and a booking, created
\* confirmed, is pending
SetBackToPending ==
    /\ resp.op = "updateBooking" /\ resp.status = StatusOK
    /\ \E id \in DOMAIN bookings : bookings[id].status = "pending"

\* an admin's update of another user's booking has gone through
AdminUpdatedOthers ==
    /\ resp.op = "updateBooking" /\ resp.status = StatusOK
    /\ \E id \in DOMAIN bookings :
          bookings[id].user_id # AdminId /\ bookings[id].status = "cancelled"

\* C25: a step in which a stored booking disappears is an admin's delete of
\* that booking's room (so no create, update-status or cancel removes one),
\* and an admin's delete of a room removes exactly the bookings of that room
\* and leaves every other booking as it is.
OnlyCascadeRemoves ==
    [][/\ \A b \in DOMAIN bookings \ DOMAIN bookings' :
             DeleteRoom(AuthUser(AdminId), bookings[b].room_id, TRUE)
       /\ resp'.op = "deleteRoom" =>
             \A id \in 1 .. MaxRooms :
                DeleteRoom(AuthUser(AdminId), id, TRUE)
                => /\ DOMAIN bookings' =
                         {b \in DOMAIN bookings : bookings[b].room_id # id}
                   /\ \A b \in DOMAIN bookings' : bookings'[b] = bookings[b]]_vars

\* C25 witness: a room delete has just removed the first booking while the
\* second, of another room, is still stored
CascadeSparedOtherRoom ==
    /\ resp.op = "deleteRoom" /\ resp.status = StatusOK
    /\ DOMAIN bookings = {2}
    /\ bookings[2].room_id \in DOMAIN rooms
    /\ Cardinality(DOMAIN rooms) < roomSeq

\* C26: when the create calls of a room run one at a time and no status
\* write brings a cancelled booking back, no two distinct pending-or-confirmed
\* bookings of one room overlap, and no create call is between its scan and
\* its insert with an interval that overlaps a pending-or-confirmed booking
\* of its room.
SerialNonOverlap ==
    /\ \A i, j \in DOMAIN bookings :
          (i # j /\ bookings[i].room_id = bookings[j].room_id /\ Active(i) /\ Active(j))
          => \/ bookings[i].end_time <= bookings[j].start_time
             \/ bookings[j].end_time <= bookings[i].start_time
    /\ \A h \in BagToSet(inflight), i \in DOMAIN bookings :
          (h.op = "create" /\ bookings[i].room_id = h.target /\ Active(i))
          => \/ h.end <= bookings[i].start_time
             \/ bookings[i].end_time <= h.start

\* C26 witness: two pending-or-confirmed bookings share a room, one of them
\* moved to pending by a status write
TwoActiveInRoom ==
    \E i, j \in DOMAIN bookings :
        /\ i # j
        /\ bookings[i].room_id = bookings[j].room_id
        /\ bookings[i].status = "pending" /\ Active(j)

\* a booking stands where a cancelled booking of its room is
RebookedOverCancelled ==
    \E i, j \in DOMAIN bookings :
        /\ bookings[i].room_id = bookings[j].room_id
        /\ bookings[i].status = "cancelled" /\ Active(j)
        /\ Overlaps(bookings[i].start_time, bookings[i].end_time,
                    bookings[j].start_time, bookings[j].end_time)

\* C27: after every step every stored booking's status is pending, confirmed
\* or cancelled; the write of an update-status call that carries any other
\* status for a stored booking is answered with an error and leaves the
\* bookings as they are.
StatusDomain ==
    [][/\ \A id \in DOMAIN bookings' : bookings'[id].status \in ThreeStatuses
       /\ resp'.op = "updateBooking" =>
            \A h \in BagToSet(inflight) :
               (/\ h.op = "update"
                /\ h.target \in DOMAIN bookings
                /\ h.status \notin ThreeStatuses
                /\ UpdateBookingWrite(h, TRUE))
               => /\ resp'.status = StatusInternalServerError
                  /\ bookings' = bookings]_vars

\* C27 witness: the write of an update-status call has just been rejected
\* (the store answers every statement here, so by the CHECK constraint) while
\* a booking is stored
StatusRejected ==
    /\ resp = Response("updateBooking", StatusInternalServerError, "db error", 0)
    /\ bookings # << >>

\* C28: after every step every stored booking's room is a stored room; the
\* insert of a create call whose room is gone (deleted since the scan, or
\* never there) is answered with an error and stores nothing.
BookingsReferToRooms ==
    [][/\ \A id \in DOMAIN bookings' : bookings'[id].room_id \in DOMAIN rooms'
       /\ resp'.op = "createBooking" =>
            \A h \in BagToSet(inflight) :
               (h.op = "create" /\ h.target \notin DOMAIN rooms
                  /\ CreateBookingInsert(h, TRUE))
               => /\ resp'.status = StatusInternalServerError
                  /\ bookings' = bookings]_vars

\* C28 witness: an insert has just failed for a room that was deleted after
\* it was created (the store answers every statement here, so by the foreign
\* key), its sequence value consumed
InsertAfterRoomDelete ==
    /\ resp = Response("createBooking", StatusInternalServerError, "db error", 0)
    /\ bookingSeq > Cardinality(DOMAIN bookings)
    /\ Cardinality(DOMAIN rooms) < roomSeq

\* C29: whenever the write of an update-status call is answered 200, the
\* targeted booking is stored afterwards with the status the call asked for,
\* also when the booking was removed between the call's lookup and its write.
UpdateOkMeansWritten ==
    [][resp'.op = "updateBooking" =>
       \A h \in BagToSet(inflight) :
          (h.op = "update" /\ UpdateBookingWrite(h, TRUE) /\ resp'.status = StatusOK)
          => /\ h.target \in DOMAIN bookings'
             /\ bookings'[h.target].status = h.status]_vars

====
